---- MODULE Spec2Model ----
(***************************************************************************)
(* Mail Hooks engine: the routing-rule cache (reloadRoutingRules over      *)
(* DatabaseRouter.loadRoutingRules), the SMTP onData handler and the       *)
(* better-queue worker (attemptWebhook) with its retry timer.              *)
(*                                                                         *)
(* One action per handler or continuation of the event loop:               *)
(*   PatchEmailStatus, CreateRule, DeleteRule   management API (the store) *)
(*   ReloadTick, LoadRoutingRules, ReloadInstall   the 30 s refresh        *)
(*   OnData, OnDataParseError                   SMTP message parsed or not *)
(*   WorkerStart, Respond, TimerFire            queue worker, axios reply, *)
(*                                              setTimeout(attemptWebhook) *)
(*   Sigterm                                    gracefulShutdown           *)
(***************************************************************************)
EXTENDS Integers, Sequences, FiniteSets, TLC

\* ---- bounds of the model ------------------------------------------------
MaxRuleId == 2            \* SERIAL ids handed out to routing_rules
MaxTicks == 3             \* refreshes started (the startup one included)
MaxJobs == 1              \* emails pushed to webhookQueue
PoolJobs == 3             \* emails pushed in the worker-pool specification
WEBHOOK_CONCURRENCY == 2  \* process.env.WEBHOOK_CONCURRENCY (default 5)
MaxParseErrors == 1       \* inbound messages the parser rejects
MaxSessions == 2          \* sessions the UI server creates
MaxClock == 3             \* steps of the UI server's clock
MaxFiles == 3             \* .sql files the migrations directory may hold
MaxRecipients == 2        \* recipients of an email in the routing specification

\* ---- program constants --------------------------------------------------
maxRetries == 3

EmailIds == {1, 2}
WebhookIds == {1, 2}
Statuses == {"active", "inactive"}

\* email_addresses.email and webhooks.url of the fixed rows
EmailOf(e) == IF e = 1 THEN "a@x" ELSE "b@x"
UrlOf(w) == IF w = 1 THEN "h1" ELSE "h2"
\* webhooks.method of the fixed rows: one left at the default, one set to PUT
MethodOf(w) == IF w = 1 THEN "POST" ELSE "PUT"

Addresses == {EmailOf(e) : e \in EmailIds}
VARIABLES
    email_addresses, \* ids of the rows of email_addresses
    webhooks,       \* ids of the rows of webhooks
    tables,         \* names of the tables the database has
    migrateExit,    \* how the latest run of migrations/init.js ended
    pending,        \* init.js: the sorted files the loop has still to run
    executed,       \* init.js: the files handed to pool.query, with the outcome
    container,      \* how far the entrypoint of the container has come
    email_status,   \* email_addresses.status, by id
    routing_rules,  \* rows of routing_rules: [id, email_id, webhook_id]
    nextRuleId,     \* the SERIAL sequence of routing_rules.id
    loadedRules,    \* module-level loadedRules
    webhookRouter,  \* the global WebhookRouter (its rules), null at first
    listening,      \* server.listen has been called
    ticks,          \* refreshes started so far
    reloads,        \* refreshes in flight
    pushed,         \* emails pushed so far
    queue,          \* webhookQueue: pushed jobs not yet taken by a worker
    running,        \* worker slots in use (taken and cb not yet called)
    job,            \* per job: the closure of the worker function
    inflight,       \* outstanding axios.post requests: [job, idx]
    timers,         \* pending setTimeout(attemptWebhook, delay): [job, delay]
    replies,        \* what onData handed to the SMTP callback, per message
    exited,         \* process.exit has been called
    authRoutesFirst, \* UI server: login and logout are registered before the
                    \* session middleware (one revision) or after it (the other)
    API_KEY,        \* UI server: process.env.API_KEY
    sessions,       \* UI server: the session Map, as a set of Session records
    nextToken,      \* UI server: the token generateSessionToken returns next
    now,            \* UI server: Date.now()
    response        \* UI server: the answer to the latest request

bootVars == <<pending, executed, container>>
rowVars == <<email_addresses, webhooks, tables, migrateExit, bootVars>>
storeVars == <<email_addresses, webhooks, tables, migrateExit, bootVars, email_status,
               routing_rules, nextRuleId>>
tableVars == <<loadedRules, webhookRouter, listening, ticks, reloads>>
queueVars == <<pushed, queue, running, job, inflight, timers>>
procVars == <<replies, exited>>
uiVars == <<authRoutesFirst, API_KEY, sessions, nextToken, now, response>>
vars == <<email_addresses, webhooks, tables, migrateExit, pending, executed, container, email_status, routing_rules, nextRuleId, loadedRules, webhookRouter,
          listening, ticks, reloads, pushed, queue, running, job, inflight,
          timers, replies, exited, authRoutesFirst, API_KEY, sessions,
          nextToken, now, response>>

Jobs == 1..PoolJobs

\* ---- sequences ------------------------------------------------------------
Min(S) == CHOOSE x \in S : \A y \in S : x <= y

RECURSIVE SortedIds(_)
SortedIds(S) == IF S = {} THEN <<>>
                ELSE <<Min(S)>> \o SortedIds(S \ {Min(S)})

MapSeq(f(_), s) == [i \in 1..Len(s) |-> f(s[i])]

\* ---- the recipients of a parsed email ----------------------------------------
\* the recipient lists of an email that names each address at most once
Recipients ==
    {MapSeq(EmailOf, SortedIds(S)) : S \in (SUBSET EmailIds) \ {{}}}

\* every recipient list, those that name an address more than once included
RecipientLists ==
    UNION {[1..n -> Addresses] : n \in 1..MaxRecipients}

\* ---- DatabaseRouter.loadRoutingRules --------------------------------------
RuleById(rr, id) == CHOOSE r \in rr : r.id = id

\* SELECT rr.id, ea.email, ea.status, w.url ... ORDER BY rr.id ASC
\* (no WHERE clause: the status column is selected but not filtered on)
QueryRows(rr, st) ==
    LET ids == SortedIds({r.id : r \in rr})
        Row(id) == LET r == RuleById(rr, id)
                   IN [id |-> id, email |-> EmailOf(r.email_id),
                       status |-> st[r.email_id], url |-> UrlOf(r.webhook_id)]
    IN MapSeq(Row, ids)

\* result.rows.map(row => ({priority: row.id, conditions: {to: row.email},
\*                          webhook: row.url}))
ConvertRow(row) == [priority |-> row.id, to |-> row.email, webhook |-> row.url]

ConvertRows(rows) == MapSeq(ConvertRow, rows)

\* the value loadRoutingRules resolves to: the converted rows, or [] from
\* its catch block when a query rejected
LoadResult(ok, rows) == IF ok THEN ConvertRows(rows) ELSE <<>>

\* ---- WebhookRouter.route (inbound-email package) ----------------------------
\* every rule whose condition {to: address} is met by one of the recipients,
\* in ascending priority, as {webhook, priority} matches
RECURSIVE InsertByPriority(_, _)
InsertByPriority(m, s) ==
    IF s = <<>> THEN <<m>>
    ELSE IF m.priority < Head(s).priority THEN <<m>> \o s
    ELSE <<Head(s)>> \o InsertByPriority(m, Tail(s))

RECURSIVE SortByPriority(_)
SortByPriority(s) ==
    IF s = <<>> THEN <<>>
    ELSE InsertByPriority(Head(s), SortByPriority(Tail(s)))

RuleMatches(rule, to) == \E i \in 1..Len(to) : to[i] = rule.to

ToMatch(rule) == [webhook |-> rule.webhook, priority |-> rule.priority]

\* a route that keeps a rule once for every recipient that matches it
RoutePerRecipient(rules, to) ==
    LET RECURSIVE PerRecipient(_)
        PerRecipient(rest) ==
            IF rest = <<>> THEN <<>>
            ELSE LET hit(rule) == rule.to = Head(rest)
                 IN SelectSeq(rules, hit) \o PerRecipient(Tail(rest))
    IN MapSeq(ToMatch, SortByPriority(PerRecipient(to)))

Route(rules, to) ==
    LET hit(rule) == RuleMatches(rule, to)
    IN MapSeq(ToMatch, SortByPriority(SelectSeq(rules, hit)))

\* ---- the worker function of webhookQueue ------------------------------------
NullRouter == [isNull |-> TRUE, rules |-> <<>>]

\* new WebhookRouter(config) with config.WEBHOOK_RULES = rules
NewRouter(rules) == [isNull |-> FALSE, rules |-> rules]

NoJob == [pc |-> "none", to |-> <<>>, retries |-> 0, passes |-> 0,
          matched |-> <<>>, idx |-> 0, errors |-> 0, log |-> <<>>,
          cbs |-> <<>>, enq |-> <<>>]

\* cb(null) or cb(error): the job is handed back to the queue
Cb(jr, res) == [jr EXCEPT !.pc = "done", !.cbs = Append(@, res)]

\* Catch with the retry test off by one downwards: three passes in all
CatchThreePasses(jr) ==
    IF jr.retries + 1 < maxRetries
    THEN [jr EXCEPT !.retries = @ + 1, !.pc = "backoff"]
    ELSE Cb(jr, "error")

\* Catch with the retry test off by one upwards: a fifth pass
CatchOneMore(jr) ==
    IF jr.retries <= maxRetries
    THEN [jr EXCEPT !.retries = @ + 1, !.pc = "backoff"]
    ELSE Cb(jr, "error")

\* Catch that reports the error to the queue and still schedules the retry
CatchReleasesSlot(jr) ==
    IF jr.retries < maxRetries
    THEN [jr EXCEPT !.retries = @ + 1, !.pc = "backoff",
                    !.cbs = Append(@, "error")]
    ELSE Cb(jr, "error")

\* the outer catch of attemptWebhook
Catch(jr) ==
    IF jr.retries < maxRetries
    THEN [jr EXCEPT !.retries = @ + 1, !.pc = "backoff"]
    ELSE Cb(jr, "error")

\* EndPass that throws when any destination failed
EndPassRetryOnAnyError(jr) ==
    IF jr.errors > 0 THEN Catch(jr) ELSE Cb(jr, "null")

\* EndPass that throws into the outer catch whatever the pass gave
EndPassAlwaysRetries(jr) == Catch(jr)

\* EndPass that hands an error to cb when only some destinations succeeded
EndPassPartialIsError(jr) ==
    IF jr.errors = Len(jr.matched) THEN Catch(jr)
    ELSE Cb(jr, IF jr.errors = 0 THEN "null" ELSE "error")

\* after the for loop: all failed -> throw into the outer catch, else cb(null)
EndPass(jr) ==
    IF jr.errors = Len(jr.matched) THEN Catch(jr) ELSE Cb(jr, "null")

\* attemptWebhook up to its first await: route, throw on no match, else
\* issue the request to the first match
AttemptWebhook(jr, wr) ==
    LET m == Route(wr.rules, jr.to)
        started == [jr EXCEPT !.passes = @ + 1, !.matched = m,
                              !.idx = 0, !.errors = 0]
    IN IF Len(m) = 0 THEN Catch(started)
       ELSE [started EXCEPT !.pc = "sending", !.idx = 1]

\* Awaited with the requests of a pass fanned out instead of awaited in turn
AwaitedAll(j, jr) ==
    IF jr.pc = "sending"
    THEN {[job |-> j, idx |-> i] : i \in jr.idx..Len(jr.matched)}
    ELSE {}

\* the axios.post the job is awaiting
Awaited(j, jr) ==
    IF jr.pc = "sending" THEN {[job |-> j, idx |-> jr.idx]} ELSE {}

\* a backoff that doubles: 1 s, 2 s, 4 s
ScheduledExponential(j, jr) ==
    IF jr.pc = "backoff"
    THEN {[job |-> j, delay |-> 1000 * 2 ^ (jr.retries - 1)]}
    ELSE {}

\* a catch that counts the retry and never arms its timer
ScheduledNothing(j, jr) ==
    {}

\* setTimeout(attemptWebhook, 1000 * retries)
Scheduled(j, jr) ==
    IF jr.pc = "backoff" THEN {[job |-> j, delay |-> 1000 * jr.retries]} ELSE {}

\* Settle that routes again before it looks for the next destination
SettleReroutes(jr, idx, ok) ==
    LET rec == [pass |-> jr.passes, dest |-> jr.matched[idx], ok |-> ok]
        jr1 == [jr EXCEPT !.log = Append(@, rec),
                          !.errors = @ + (IF ok THEN 0 ELSE 1)]
        m == Route(webhookRouter.rules, jr.to)
    IN IF idx < Len(m) THEN [jr1 EXCEPT !.idx = idx + 1, !.matched = m]
       ELSE EndPass([jr1 EXCEPT !.matched = m])

\* the continuation of attemptWebhook after an axios.post settled
Settle(jr, idx, ok) ==
    LET rec == [pass |-> jr.passes, dest |-> jr.matched[idx], ok |-> ok]
        jr1 == [jr EXCEPT !.log = Append(@, rec),
                          !.errors = @ + (IF ok THEN 0 ELSE 1)]
    IN IF idx < Len(jr.matched) THEN [jr1 EXCEPT !.idx = idx + 1]
       ELSE EndPass(jr1)

\* ---- UI server: sessions -----------------------------------------------------
SESSION_DURATION == 24 * 60 * 60 * 1000

\* the clock moves in steps of half a session lifetime
ClockStep == SESSION_DURATION \div 2

\* the x-session-token header is absent
NoToken == 0

\* what a request may carry as x-session-token
TokenInputs == 0..MaxSessions

\* values of process.env.API_KEY and of body.apiKey
ApiKeys == {"secret", "undefined"}
KeyInputs == {"secret", "wrong", "undefined"}

NoResponse ==
    [route |-> "none", token |-> NoToken, status |-> 0, error |-> "",
     queried |-> FALSE, check |-> "skipped", issued |-> NoToken, at |-> 0]

\* the UI server has just started
UiStart ==
    /\ sessions = {}
    /\ nextToken = 1
    /\ now = 0
    /\ response = NoResponse

\* the deployment the engine runs next to
UiInit ==
    /\ authRoutesFirst = FALSE
    /\ API_KEY = "secret"
    /\ UiStart

\* isValidSession that looks the token up and does not look at expiresAt
isValidSessionIgnoresExpiry(token) ==
    \E session \in sessions : session.token = token

isValidSession(token) ==
    \E session \in sessions :
        session.token = token /\ ~(now > session.expiresAt)

\* isValidSession that leaves an expired session in the Map
SessionsCheckedKeepsExpired(token) ==
    sessions

\* the session Map after isValidSession(token): an expired session is deleted
SessionsChecked(token) ==
    {session \in sessions : ~(session.token = token /\ now > session.expiresAt)}

\* what a presented token is to the session Map at this moment
SessionCheck(token) ==
    IF token = NoToken THEN "none"
    ELSE IF ~ \E session \in sessions : session.token = token THEN "unknown"
    ELSE IF \E session \in sessions :
               session.token = token /\ now > session.expiresAt THEN "expired"
    ELSE "valid"

\* the middleware calls next()
Authenticated(token) == token # NoToken /\ isValidSession(token)

\* the session Map after the middleware ran
SessionsAfterMiddleware(token) ==
    IF token = NoToken THEN sessions ELSE SessionsChecked(token)

\* the middleware's answer
Unauthorized(route, token) ==
    [route |-> route, token |-> token, status |-> 401,
     error |-> "Unauthorized", queried |-> FALSE,
     check |-> SessionCheck(token), issued |-> NoToken, at |-> now]

\* a handler's answer
Answer(route, token, status, error, queried, check, issued) ==
    [route |-> route, token |-> token, status |-> status, error |-> error,
     queried |-> queried, check |-> check, issued |-> issued, at |-> now]

\* ---- the schema: migrations/001-create-tables.sql -----------------------------
\* the tables the DROP TABLE IF EXISTS statements name
DroppedTables == {"routing_rules", "webhook_destinations", "email_addresses"}

\* the tables the CREATE TABLE statements name
CreatedTables == {"email_addresses", "webhooks", "routing_rules"}

\* the tables left once the DROP statements have run over T
AfterDrop(T) == T \ DroppedTables

\* a CREATE TABLE without IF NOT EXISTS raises when its table is still there
CreateFails(T) == \E t \in CreatedTables : t \in AfterDrop(T)

\* ---- the container: entrypoint and migrations/init.js ------------------------
\* the numbered prefixes of the .sql files a migrations directory may hold
MigrationFiles == 1..MaxFiles

\* the entrypoint has gone through and the engine runs
Booted ==
    /\ pending = <<>>
    /\ executed = <<>>
    /\ container = "engine"

\* ---- initial state ----------------------------------------------------------
\* an engine that calls server.listen without awaiting the startup refresh
EngineInitListening ==
    /\ loadedRules = <<>>
    /\ webhookRouter = NullRouter
    /\ listening = TRUE
    /\ ticks = 1
    /\ reloads = {[n |-> 1, st |-> "querying", err |-> FALSE, rows |-> <<>>]}
    /\ pushed = 0
    /\ queue = <<>>
    /\ running = 0
    /\ job = [j \in Jobs |-> NoJob]
    /\ inflight = {}
    /\ timers = {}
    /\ replies = <<>>
    /\ exited = FALSE

\* the engine process has just called reloadRoutingRules() at startup
EngineInit ==
    /\ loadedRules = <<>>
    /\ webhookRouter = NullRouter
    /\ listening = FALSE
    /\ ticks = 1
    /\ reloads = {[n |-> 1, st |-> "querying", err |-> FALSE, rows |-> <<>>]}
    /\ pushed = 0
    /\ queue = <<>>
    /\ running = 0
    /\ job = [j \in Jobs |-> NoJob]
    /\ inflight = {}
    /\ timers = {}
    /\ replies = <<>>
    /\ exited = FALSE

Init ==
    /\ email_addresses = EmailIds
    /\ webhooks = WebhookIds
    /\ tables = CreatedTables
    /\ migrateExit = "ok"
    /\ Booted
    /\ email_status = [e \in EmailIds |-> "active"]
    /\ routing_rules = {}
    /\ nextRuleId = 1
    /\ EngineInit
    /\ UiInit

\* a store the management API has already filled: one rule per address
InitPool ==
    /\ email_addresses = EmailIds
    /\ webhooks = WebhookIds
    /\ tables = CreatedTables
    /\ migrateExit = "ok"
    /\ Booted
    /\ email_status = [e \in EmailIds |-> "active"]
    /\ routing_rules = {[id |-> 1, email_id |-> 1, webhook_id |-> 1],
                        [id |-> 2, email_id |-> 2, webhook_id |-> 2]}
    /\ nextRuleId = 3
    /\ EngineInit
    /\ UiInit

\* the UI server in either revision of its route order, with or without a
\* configured key, over a filled store
InitUi ==
    /\ email_addresses = EmailIds
    /\ webhooks = WebhookIds
    /\ tables = CreatedTables
    /\ migrateExit = "ok"
    /\ Booted
    /\ email_status = [e \in EmailIds |-> "active"]
    /\ routing_rules = {[id |-> 1, email_id |-> 1, webhook_id |-> 1],
                        [id |-> 2, email_id |-> 2, webhook_id |-> 2]}
    /\ nextRuleId = 3
    /\ EngineInit
    /\ authRoutesFirst \in BOOLEAN
    /\ API_KEY \in ApiKeys
    /\ UiStart

\* ---- management API: the rule store -----------------------------------------
\* PATCH /api/email-addresses/:id {status}
PatchEmailStatus(e, s) ==
    /\ email_status[e] # s
    /\ email_status' = [email_status EXCEPT ![e] = s]
    /\ UNCHANGED <<rowVars, routing_rules, nextRuleId, tableVars, queueVars,
                   procVars, uiVars>>

\* POST /api/routing-rules: INSERT under UNIQUE(email_id, webhook_id)
CreateRule(e, w) ==
    /\ nextRuleId <= MaxRuleId
    /\ ~ \E r \in routing_rules : r.email_id = e /\ r.webhook_id = w
    /\ routing_rules' = routing_rules \cup
            {[id |-> nextRuleId, email_id |-> e, webhook_id |-> w]}
    /\ nextRuleId' = nextRuleId + 1
    /\ UNCHANGED <<rowVars, email_status, tableVars, queueVars, procVars,
                   uiVars>>

\* DELETE /api/routing-rules/:id
DeleteRule(id) ==
    /\ \E r \in routing_rules : r.id = id
    /\ routing_rules' = {r \in routing_rules : r.id # id}
    /\ UNCHANGED <<rowVars, email_status, nextRuleId, tableVars, queueVars,
                   procVars, uiVars>>

\* ---- reloadRoutingRules ------------------------------------------------------
\* a refresh that empties the published table when it starts and fills it
\* again when the database has answered
ReloadTickClearsTable ==
    /\ ~exited
    /\ listening
    /\ ticks < MaxTicks
    /\ ticks' = ticks + 1
    /\ reloads' = reloads \cup
            {[n |-> ticks + 1, st |-> "querying", err |-> FALSE, rows |-> <<>>]}
    /\ loadedRules' = <<>>
    /\ webhookRouter' = NewRouter(loadedRules')
    /\ UNCHANGED <<storeVars, listening, queueVars, procVars, uiVars>>

\* setInterval(..., 30000): a periodic refresh starts
ReloadTick ==
    /\ ~exited
    /\ listening
    /\ ticks < MaxTicks
    /\ ticks' = ticks + 1
    /\ reloads' = reloads \cup
            {[n |-> ticks + 1, st |-> "querying", err |-> FALSE, rows |-> <<>>]}
    /\ UNCHANGED <<storeVars, loadedRules, webhookRouter, listening, queueVars,
                   procVars, uiVars>>

\* the database answers the queries of loadRoutingRules, or one of them rejects
LoadRoutingRules(r, ok) ==
    /\ ~exited
    /\ r \in reloads
    /\ r.st = "querying"
    /\ reloads' = (reloads \ {r}) \cup
            {[r EXCEPT !.st = "answered", !.err = ~ok,
                       !.rows = IF ok THEN QueryRows(routing_rules, email_status)
                                ELSE <<>>]}
    /\ UNCHANGED <<storeVars, loadedRules, webhookRouter, listening, ticks,
                   queueVars, procVars, uiVars>>

\* reloadRoutingRules that treats a failed load as fatal: process.exit
ReloadInstallExitsOnFailure(r) ==
    /\ ~exited
    /\ r \in reloads
    /\ r.st = "answered"
    /\ loadedRules' = LoadResult(~r.err, r.rows)
    /\ webhookRouter' = NewRouter(loadedRules')
    /\ listening' = ~r.err
    /\ exited' = r.err
    /\ reloads' = reloads \ {r}
    /\ UNCHANGED <<storeVars, ticks, queueVars, replies, uiVars>>

\* reloadRoutingRules resumes after its await and publishes what
\* loadRoutingRules returned; the startup call then goes on to server.listen
ReloadInstall(r) ==
    /\ ~exited
    /\ r \in reloads
    /\ r.st = "answered"
    /\ loadedRules' = LoadResult(~r.err, r.rows)
    /\ webhookRouter' = NewRouter(loadedRules')
    /\ listening' = TRUE
    /\ reloads' = reloads \ {r}
    /\ UNCHANGED <<storeVars, ticks, queueVars, procVars, uiVars>>

\* ---- SMTP onData --------------------------------------------------------------
\* onData that pushes the job and leaves the SMTP callback to the worker
OnDataNoReply(to, limit) ==
    /\ ~exited
    /\ listening
    /\ pushed < limit
    /\ pushed' = pushed + 1
    /\ queue' = Append(queue, pushed + 1)
    /\ job' = [job EXCEPT ![pushed + 1] =
                  [NoJob EXCEPT !.pc = "queued", !.to = to,
                                !.enq = Route(webhookRouter.rules, to)]]
    /\ UNCHANGED <<storeVars, tableVars, running, inflight, timers, procVars, uiVars>>

\* parseEmail resolved: webhookQueue.push(parsed); callback()
OnData(to, limit) ==
    /\ ~exited
    /\ listening
    /\ pushed < limit
    /\ pushed' = pushed + 1
    /\ queue' = Append(queue, pushed + 1)
    /\ job' = [job EXCEPT ![pushed + 1] =
                  [NoJob EXCEPT !.pc = "queued", !.to = to,
                                !.enq = Route(webhookRouter.rules, to)]]
    /\ replies' = Append(replies, [job |-> pushed + 1, res |-> "ok"])
    /\ UNCHANGED <<storeVars, tableVars, running, inflight, timers, exited, uiVars>>

\* a parser failure that is thrown on: unhandled rejection, gracefulShutdown
OnDataParseErrorShutsDown ==
    /\ ~exited
    /\ listening
    /\ Cardinality({i \in 1..Len(replies) : replies[i].res = "error"})
           < MaxParseErrors
    /\ replies' = Append(replies, [job |-> 0, res |-> "error"])
    /\ exited' = TRUE
    /\ listening' = FALSE
    /\ UNCHANGED <<storeVars, loadedRules, webhookRouter, ticks, reloads,
                   queueVars, uiVars>>

\* parseEmail rejected: callback(new Error('Failed to parse email'))
OnDataParseError ==
    /\ ~exited
    /\ listening
    /\ Cardinality({i \in 1..Len(replies) : replies[i].res = "error"})
           < MaxParseErrors
    /\ replies' = Append(replies, [job |-> 0, res |-> "error"])
    /\ UNCHANGED <<storeVars, tableVars, queueVars, exited, uiVars>>

\* ---- the queue and its workers ----------------------------------------------
\* how a step of job j from jr to nx shows in the queue's bookkeeping
JobStep(j, jr, nx) ==
    /\ job' = [job EXCEPT ![j] = nx]
    /\ inflight' = {q \in inflight : q.job # j} \cup Awaited(j, nx)
    /\ timers' = {t \in timers : t.job # j} \cup Scheduled(j, nx)

\* a queue that counts a job against its workers only while a request of the
\* job is in flight, not while the job waits for its retry timer
WorkerStartIgnoresBackoff ==
    /\ ~exited
    /\ queue # <<>>
    /\ Cardinality({j \in Jobs : job[j].pc = "sending"}) < WEBHOOK_CONCURRENCY
    /\ LET j == Head(queue)
           nx == AttemptWebhook(job[j], webhookRouter)
       IN /\ JobStep(j, job[j], nx)
          /\ running' = running + 1 - Len(nx.cbs)
    /\ queue' = Tail(queue)
    /\ UNCHANGED <<storeVars, tableVars, pushed, procVars, uiVars>>

\* better-queue hands the oldest job to a free worker: attemptWebhook()
WorkerStart ==
    /\ ~exited
    /\ queue # <<>>
    /\ running < WEBHOOK_CONCURRENCY
    /\ LET j == Head(queue)
           nx == AttemptWebhook(job[j], webhookRouter)
       IN /\ JobStep(j, job[j], nx)
          /\ running' = running + 1 - Len(nx.cbs)
    /\ queue' = Tail(queue)
    /\ UNCHANGED <<storeVars, tableVars, pushed, procVars, uiVars>>

\* an axios.post resolves (2xx) or rejects (other status, timeout, transport)
Respond(q, ok) ==
    /\ ~exited
    /\ q \in inflight
    /\ LET j == q.job
           nx == Settle(job[j], q.idx, ok)
       IN /\ JobStep(j, job[j], nx)
          /\ running' = running - (Len(nx.cbs) - Len(job[j].cbs))
    /\ UNCHANGED <<storeVars, tableVars, pushed, queue, procVars, uiVars>>

\* the backoff timer of a job fires: attemptWebhook() again
TimerFire(t) ==
    /\ ~exited
    /\ t \in timers
    /\ LET j == t.job
           nx == AttemptWebhook(job[j], webhookRouter)
       IN /\ JobStep(j, job[j], nx)
          /\ running' = running - (Len(nx.cbs) - Len(job[j].cbs))
    /\ UNCHANGED <<storeVars, tableVars, pushed, queue, procVars, uiVars>>

\* ---- UI server: requests --------------------------------------------------------
engineVars == <<tableVars, queueVars, procVars>>

\* GET /api/routing-rules behind the session middleware
ApiGetRules(token) ==
    /\ sessions' = SessionsAfterMiddleware(token)
    /\ response' =
          IF Authenticated(token)
          THEN Answer("GET /api/routing-rules", token, 200, "", TRUE,
                      "valid", NoToken)
          ELSE Unauthorized("GET /api/routing-rules", token)
    /\ UNCHANGED <<storeVars, engineVars, authRoutesFirst, API_KEY, nextToken,
                   now>>

\* DELETE /api/routing-rules/:id behind the session middleware
ApiDeleteRule(token, id) ==
    /\ sessions' = SessionsAfterMiddleware(token)
    /\ IF Authenticated(token)
       THEN /\ routing_rules' = {r \in routing_rules : r.id # id}
            /\ response' =
                  IF \E r \in routing_rules : r.id = id
                  THEN Answer("DELETE /api/routing-rules/:id", token, 200, "",
                              TRUE, "valid", NoToken)
                  ELSE Answer("DELETE /api/routing-rules/:id", token, 404,
                              "Not found", TRUE, "valid", NoToken)
       ELSE /\ routing_rules' = routing_rules
            /\ response' = Unauthorized("DELETE /api/routing-rules/:id", token)
    /\ UNCHANGED <<rowVars, email_status, nextRuleId, engineVars,
                   authRoutesFirst, API_KEY, nextToken, now>>

\* a login that keeps one session only: the new one replaces the others
LoginHandlerSingleSession(token, apiKey, check) ==
    IF apiKey # API_KEY
    THEN /\ response' = Answer("POST /api/login", token, 401,
                               "Invalid API key", FALSE, check, NoToken)
         /\ sessions' = SessionsAfterMiddleware(
                            IF check = "skipped" THEN NoToken ELSE token)
         /\ nextToken' = nextToken
    ELSE /\ nextToken <= MaxSessions
         /\ sessions' = {[token |-> nextToken, createdAt |-> now,
                          expiresAt |-> now + SESSION_DURATION]}
         /\ nextToken' = nextToken + 1
         /\ response' = Answer("POST /api/login", token, 200, "", FALSE,
                               check, nextToken)

\* the handler of POST /api/login: createSession() when the key is the
\* expected one
LoginHandler(token, apiKey, check) ==
    IF apiKey # API_KEY
    THEN /\ response' = Answer("POST /api/login", token, 401,
                               "Invalid API key", FALSE, check, NoToken)
         /\ sessions' = SessionsAfterMiddleware(
                            IF check = "skipped" THEN NoToken ELSE token)
         /\ nextToken' = nextToken
    ELSE /\ nextToken <= MaxSessions
         /\ sessions' = sessions \cup
                {[token |-> nextToken, createdAt |-> now,
                  expiresAt |-> now + SESSION_DURATION]}
         /\ nextToken' = nextToken + 1
         /\ response' = Answer("POST /api/login", token, 200, "", FALSE,
                               check, nextToken)

\* POST /api/login: handled at once when the route is registered before the
\* middleware, behind the middleware when it is registered after it
ApiLogin(token, apiKey) ==
    /\ IF authRoutesFirst THEN LoginHandler(token, apiKey, "skipped")
       ELSE IF Authenticated(token) THEN LoginHandler(token, apiKey, "valid")
       ELSE /\ response' = Unauthorized("POST /api/login", token)
            /\ sessions' = SessionsAfterMiddleware(token)
            /\ nextToken' = nextToken
    /\ UNCHANGED <<storeVars, engineVars, authRoutesFirst, API_KEY, now>>

\* a logout handler that answers and leaves the session in the Map
LogoutHandlerKeepsSession(token, check) ==
    /\ sessions' = sessions
    /\ response' = Answer("POST /api/logout", token, 200, "", FALSE, check,
                          NoToken)

\* the handler of POST /api/logout: sessions.delete(token) when there is one
LogoutHandler(token, check) ==
    /\ sessions' = {session \in sessions : session.token # token}
    /\ response' = Answer("POST /api/logout", token, 200, "", FALSE, check,
                          NoToken)

\* POST /api/logout, registered next to POST /api/login
ApiLogout(token) ==
    /\ IF authRoutesFirst THEN LogoutHandler(token, "skipped")
       ELSE IF Authenticated(token) THEN LogoutHandler(token, "valid")
       ELSE /\ response' = Unauthorized("POST /api/logout", token)
            /\ sessions' = SessionsAfterMiddleware(token)
    /\ UNCHANGED <<storeVars, engineVars, authRoutesFirst, API_KEY, nextToken,
                   now>>

\* time passes
ClockTick ==
    /\ now < MaxClock * ClockStep
    /\ now' = now + ClockStep
    /\ UNCHANGED <<storeVars, engineVars, authRoutesFirst, API_KEY, sessions,
                   nextToken, response>>

\* ---- management API: handlers and their answers ---------------------------
\* what a handler answers once the middleware has let the request through
Handled(route, status, error) ==
    Answer(route, NoToken, status, error, TRUE, "skipped", NoToken)

\* the rules that reference neither email address e nor webhook w
RulesWithout(e, w) ==
    {r \in routing_rules : r.email_id # e /\ r.webhook_id # w}

\* the INSERT of a rule for (e, w) passes the foreign keys and the UNIQUE
InsertAllowed(e, w) ==
    /\ "routing_rules" \in tables
    /\ e \in email_addresses
    /\ w \in webhooks
    /\ ~ \E r \in routing_rules : r.email_id = e /\ r.webhook_id = w

\* a rule INSERT into a table without its UNIQUE constraint
PostRoutingRuleNoUnique(e, w) ==
    /\ IF e \in email_addresses /\ w \in webhooks
       THEN /\ nextRuleId <= MaxRuleId
            /\ routing_rules' = routing_rules \cup
                    {[id |-> nextRuleId, email_id |-> e, webhook_id |-> w]}
            /\ nextRuleId' = nextRuleId + 1
            /\ response' = Handled("POST /api/routing-rules", 201, "")
       ELSE /\ UNCHANGED <<routing_rules, nextRuleId>>
            /\ response' = Handled("POST /api/routing-rules", 500,
                                   "Database error")
    /\ UNCHANGED <<rowVars, email_status, engineVars, authRoutesFirst,
                   API_KEY, sessions, nextToken, now>>

\* the handler of POST /api/routing-rules: the INSERT, or its rejection by a
\* constraint of routing_rules, caught and answered 500
PostRoutingRule(e, w) ==
    /\ IF InsertAllowed(e, w)
       THEN /\ nextRuleId <= MaxRuleId
            /\ routing_rules' = routing_rules \cup
                    {[id |-> nextRuleId, email_id |-> e, webhook_id |-> w]}
            /\ nextRuleId' = nextRuleId + 1
            /\ response' = Handled("POST /api/routing-rules", 201, "")
       ELSE /\ UNCHANGED <<routing_rules, nextRuleId>>
            /\ response' = Handled("POST /api/routing-rules", 500,
                                   "Database error")
    /\ UNCHANGED <<rowVars, email_status, engineVars, authRoutesFirst,
                   API_KEY, sessions, nextToken, now>>

\* a DELETE of an email address whose rules are kept
DeleteEmailAddressNoCascade(e) ==
    /\ email_addresses' = email_addresses \ {e}
    /\ response' =
          IF "email_addresses" \notin tables
          THEN Handled("DELETE /api/email-addresses/:id", 500,
                       "Database error")
          ELSE IF e \in email_addresses
          THEN Handled("DELETE /api/email-addresses/:id", 200, "")
          ELSE Handled("DELETE /api/email-addresses/:id", 404, "Not found")
    /\ UNCHANGED <<webhooks, tables, migrateExit, bootVars, email_status, routing_rules,
                   nextRuleId,
                   engineVars, authRoutesFirst, API_KEY, sessions, nextToken,
                   now>>

\* the handler of DELETE /api/email-addresses/:id, with ON DELETE CASCADE
DeleteEmailAddress(e) ==
    /\ email_addresses' = email_addresses \ {e}
    /\ routing_rules' = RulesWithout(e, 0)
    /\ response' =
          IF "email_addresses" \notin tables
          THEN Handled("DELETE /api/email-addresses/:id", 500,
                       "Database error")
          ELSE IF e \in email_addresses
          THEN Handled("DELETE /api/email-addresses/:id", 200, "")
          ELSE Handled("DELETE /api/email-addresses/:id", 404, "Not found")
    /\ UNCHANGED <<webhooks, tables, migrateExit, bootVars, email_status, nextRuleId,
                   engineVars,
                   authRoutesFirst, API_KEY, sessions, nextToken, now>>

\* the handler of DELETE /api/webhooks/:id, with ON DELETE CASCADE
DeleteWebhook(w) ==
    /\ webhooks' = webhooks \ {w}
    /\ routing_rules' = RulesWithout(0, w)
    /\ response' =
          IF "webhooks" \notin tables
          THEN Handled("DELETE /api/webhooks/:id", 500, "Database error")
          ELSE IF w \in webhooks
          THEN Handled("DELETE /api/webhooks/:id", 200, "")
          ELSE Handled("DELETE /api/webhooks/:id", 404, "Not found")
    /\ UNCHANGED <<email_addresses, tables, migrateExit, bootVars, email_status,
                   nextRuleId, engineVars,
                   authRoutesFirst, API_KEY, sessions, nextToken, now>>

\* the handler of POST /api/email-addresses; e = 0 is a body without email,
\* and email_addresses.email is UNIQUE
PostEmailAddress(e) ==
    /\ IF e = 0
       THEN /\ UNCHANGED <<email_addresses, email_status>>
            /\ response' = Answer("POST /api/email-addresses", NoToken, 400,
                                  "Email is required", FALSE, "skipped",
                                  NoToken)
       ELSE IF "email_addresses" \in tables /\ e \notin email_addresses
       THEN /\ email_addresses' = email_addresses \cup {e}
            /\ email_status' = [email_status EXCEPT ![e] = "active"]
            /\ response' = Handled("POST /api/email-addresses", 201, "")
       ELSE /\ UNCHANGED <<email_addresses, email_status>>
            /\ response' = Handled("POST /api/email-addresses", 500,
                                   "Database error")
    /\ UNCHANGED <<webhooks, tables, migrateExit, bootVars, routing_rules, nextRuleId,
                   engineVars, authRoutesFirst, API_KEY, sessions, nextToken,
                   now>>

\* the handler of POST /api/webhooks; w = 0 is a body without url, any other w
\* is the id the new row gets
PostWebhook(w) ==
    /\ w \notin webhooks
    /\ IF w = 0
       THEN /\ UNCHANGED webhooks
            /\ response' = Answer("POST /api/webhooks", NoToken, 400,
                                  "URL is required", FALSE, "skipped", NoToken)
       ELSE IF "webhooks" \in tables
       THEN /\ webhooks' = webhooks \cup {w}
            /\ response' = Handled("POST /api/webhooks", 201, "")
       ELSE /\ UNCHANGED webhooks
            /\ response' = Handled("POST /api/webhooks", 500,
                                   "Database error")
    /\ UNCHANGED <<email_addresses, tables, migrateExit, bootVars, email_status,
                   routing_rules, nextRuleId, engineVars, authRoutesFirst,
                   API_KEY, sessions, nextToken, now>>

\* ---- the migration runner: migrations/init.js --------------------------------
\* one run of init.js from the entrypoint: the file is one query, so its
\* statements are one transaction. The DROPs take routing_rules and
\* email_addresses with their rows; a CREATE TABLE that raises undoes them and
\* the run ends with process.exit(1)
RunMigrations ==
    /\ IF CreateFails(tables)
       THEN /\ migrateExit' = "failed"
            /\ UNCHANGED <<tables, email_addresses, webhooks, email_status,
                           routing_rules, nextRuleId>>
       ELSE /\ migrateExit' = "ok"
            /\ tables' = AfterDrop(tables) \cup CreatedTables
            /\ email_addresses' = {}
            /\ webhooks' = {}
            /\ routing_rules' = {}
            /\ nextRuleId' = 1
            /\ UNCHANGED email_status
    /\ UNCHANGED <<bootVars, engineVars, uiVars>>

\* ---- the migration runner, file by file -------------------------------------
\* readdirSync, filter and sort: the files of the directory dir in ascending
\* name order
ReadMigrations(dir) ==
    /\ container = "init"
    /\ pending' = SortedIds(dir)
    /\ container' = "migrating"
    /\ UNCHANGED <<email_addresses, webhooks, tables, migrateExit, executed,
                   email_status, routing_rules, nextRuleId, engineVars, uiVars>>

\* a runner that logs a failed file and goes on with the next one
RunFileGoesOn(ok) ==
    /\ container = "migrating"
    /\ pending # <<>>
    /\ executed' = Append(executed, [file |-> Head(pending), ok |-> ok])
    /\ pending' = Tail(pending)
    /\ UNCHANGED <<email_addresses, webhooks, tables, migrateExit, container,
                   email_status, routing_rules, nextRuleId, engineVars, uiVars>>

\* one turn of the for loop: await pool.query(sql) for the next file, whose
\* SQL passes or raises; the catch ends the process with exit code 1
RunFile(ok) ==
    /\ container = "migrating"
    /\ pending # <<>>
    /\ executed' = Append(executed, [file |-> Head(pending), ok |-> ok])
    /\ IF ok
       THEN /\ pending' = Tail(pending)
            /\ UNCHANGED <<migrateExit, container>>
       ELSE /\ migrateExit' = "failed"
            /\ container' = "returned"
            /\ UNCHANGED pending
    /\ UNCHANGED <<email_addresses, webhooks, tables, email_status,
                   routing_rules, nextRuleId, engineVars, uiVars>>

\* after the loop: await pool.end(), which resolves (exit code 0) or rejects
\* into the catch of the caller (exit code 1)
EndMigrations(ok) ==
    /\ container = "migrating"
    /\ pending = <<>>
    /\ migrateExit' = IF ok THEN "ok" ELSE "failed"
    /\ container' = "returned"
    /\ UNCHANGED <<email_addresses, webhooks, tables, pending, executed,
                   email_status, routing_rules, nextRuleId, engineVars, uiVars>>

\* the entrypoint after node migrations/init.js: exit 1 on a non-zero exit
\* code, else exec npm start, where the engine begins its startup refresh
Entrypoint ==
    /\ container = "returned"
    /\ IF migrateExit = "ok"
       THEN /\ container' = "engine"
            /\ ticks' = 1
            /\ reloads' = {[n |-> 1, st |-> "querying", err |-> FALSE,
                            rows |-> <<>>]}
       ELSE /\ container' = "exited"
            /\ UNCHANGED <<ticks, reloads>>
    /\ UNCHANGED <<email_addresses, webhooks, tables, migrateExit, pending,
                   executed, email_status, routing_rules, nextRuleId,
                   loadedRules, webhookRouter, listening, queueVars, procVars,
                   uiVars>>

\* ---- process signals -----------------------------------------------------------
\* SIGTERM or SIGINT: gracefulShutdown closes the server and exits
Sigterm ==
    /\ ~exited
    /\ exited' = TRUE
    /\ listening' = FALSE
    /\ UNCHANGED <<storeVars, loadedRules, webhookRouter, ticks, reloads,
                   queueVars, replies, uiVars>>

\* ---- specifications -----------------------------------------------------------
StoreNext ==
    \/ \E e \in EmailIds, s \in Statuses : PatchEmailStatus(e, s)
    \/ \E e \in EmailIds, w \in WebhookIds : CreateRule(e, w)
    \/ \E id \in 1..MaxRuleId : DeleteRule(id)

ReloadNext ==
    \/ ReloadTick
    \/ \E r \in reloads, ok \in BOOLEAN : LoadRoutingRules(r, ok)
    \/ \E r \in reloads : ReloadInstall(r)

WorkerNext ==
    \/ WorkerStart
    \/ \E q \in inflight, ok \in BOOLEAN : Respond(q, ok)
    \/ \E t \in timers : TimerFire(t)

\* the rule cache against a store under change, no mail
RefreshNext ==
    \/ StoreNext
    \/ ReloadNext

SpecRefresh == Init /\ [][RefreshNext]_vars

\* mail, the queue and the refresh against a filled store that loses rules
Next ==
    \/ \E id \in 1..MaxRuleId : DeleteRule(id)
    \/ ReloadNext
    \/ \E to \in Recipients : OnData(to, MaxJobs)
    \/ WorkerNext

Spec == InitPool /\ [][Next]_vars

\* the event loop runs what is ready: the queue hands a waiting job to a free
\* worker, a settled request resumes its job (every request returns or times
\* out after 5 s), a due timer calls attemptWebhook
Fairness == WF_vars(WorkerNext)

\* the engine process from its start to its exit: the listener with good and
\* unparsable mail, the refresh, the queue and a shutdown signal
EngineNext ==
    \/ ReloadNext
    \/ \E to \in Recipients : OnData(to, MaxJobs)
    \/ OnDataParseError
    \/ WorkerNext
    \/ Sigterm

SpecEngine == InitPool /\ [][EngineNext]_vars

\* the queue from the startup refresh to the exit, under a fair event loop
LiveNext ==
    \/ \E r \in reloads, ok \in BOOLEAN : LoadRoutingRules(r, ok)
    \/ \E r \in reloads : ReloadInstall(r)
    \/ \E to \in Recipients : OnData(to, MaxJobs)
    \/ WorkerNext
    \/ Sigterm

SpecLive == InitPool /\ [][LiveNext]_vars /\ Fairness

\* the worker pool under more mail than it has workers, after the startup
\* refresh; the store is left alone
PoolNext ==
    \/ \E r \in reloads, ok \in BOOLEAN : LoadRoutingRules(r, ok)
    \/ \E r \in reloads : ReloadInstall(r)
    \/ \E to \in Recipients : OnData(to, PoolJobs)
    \/ WorkerNext

SpecPool == InitPool /\ [][PoolNext]_vars

\* routing: rules created for any address and webhook, the startup refresh,
\* and mail whose recipient list may name an address twice
RouteNext ==
    \/ \E e \in EmailIds, w \in WebhookIds : CreateRule(e, w)
    \/ \E r \in reloads, ok \in BOOLEAN : LoadRoutingRules(r, ok)
    \/ \E r \in reloads : ReloadInstall(r)
    \/ \E to \in RecipientLists : OnData(to, MaxJobs)
    \/ WorkerNext

SpecRoute == Init /\ [][RouteNext]_vars

\* the UI server under requests with any token and any key, as time passes
UiNext ==
    \/ \E token \in TokenInputs : ApiGetRules(token)
    \/ \E token \in TokenInputs, id \in 1..MaxRuleId : ApiDeleteRule(token, id)
    \/ \E token \in TokenInputs, apiKey \in KeyInputs : ApiLogin(token, apiKey)
    \/ \E token \in TokenInputs : ApiLogout(token)
    \/ ClockTick

SpecUi == InitUi /\ [][UiNext]_vars

\* the store under the handlers that create rules and delete rows
StoreApiNext ==
    \/ \E e \in EmailIds, w \in WebhookIds : PostRoutingRule(e, w)
    \/ \E e \in EmailIds : DeleteEmailAddress(e)
    \/ \E w \in WebhookIds : DeleteWebhook(w)

SpecStore == Init /\ [][StoreApiNext]_vars

\* a database server that has no table yet
InitDb ==
    /\ email_addresses = {}
    /\ webhooks = {}
    /\ tables = {}
    /\ migrateExit = "none"
    /\ Booted
    /\ email_status = [e \in EmailIds |-> "active"]
    /\ routing_rules = {}
    /\ nextRuleId = 1
    /\ EngineInit
    /\ UiInit

\* the entrypoint's migration run at every start of the container, and the
\* management API filling the tables between the starts
MigrateNext ==
    \/ RunMigrations
    \/ \E e \in EmailIds \cup {0} : PostEmailAddress(e)
    \/ \E w \in WebhookIds \cup {0} : PostWebhook(w)
    \/ StoreApiNext

SpecMigrate == InitDb /\ [][MigrateNext]_vars

\* a container at the first line of its entrypoint: no engine process yet
InitContainer ==
    /\ email_addresses = EmailIds
    /\ webhooks = WebhookIds
    /\ tables = CreatedTables
    /\ migrateExit = "none"
    /\ pending = <<>>
    /\ executed = <<>>
    /\ container = "init"
    /\ email_status = [e \in EmailIds |-> "active"]
    /\ routing_rules = {[id |-> 1, email_id |-> 1, webhook_id |-> 1],
                        [id |-> 2, email_id |-> 2, webhook_id |-> 2]}
    /\ nextRuleId = 3
    /\ loadedRules = <<>>
    /\ webhookRouter = NullRouter
    /\ listening = FALSE
    /\ ticks = 0
    /\ reloads = {}
    /\ pushed = 0
    /\ queue = <<>>
    /\ running = 0
    /\ job = [j \in Jobs |-> NoJob]
    /\ inflight = {}
    /\ timers = {}
    /\ replies = <<>>
    /\ exited = FALSE
    /\ UiInit

\* the start of a container: the migration runner over any directory, the
\* entrypoint's test of its exit code, and the engine up to its first mail
BootNext ==
    \/ \E dir \in SUBSET MigrationFiles : ReadMigrations(dir)
    \/ \E ok \in BOOLEAN : RunFile(ok)
    \/ \E ok \in BOOLEAN : EndMigrations(ok)
    \/ Entrypoint
    \/ \E r \in reloads, ok \in BOOLEAN : LoadRoutingRules(r, ok)
    \/ \E r \in reloads : ReloadInstall(r)
    \/ \E to \in Recipients : OnData(to, MaxJobs)
    \/ WorkerNext

SpecBoot == InitContainer /\ [][BootNext]_vars

\* ---- observations on a job ----------------------------------------------------
\* indices of the delivery attempts job record jr made in pass p
PassEntries(jr, p) == {i \in 1..Len(jr.log) : jr.log[i].pass = p}

\* delivery attempts of jr to destination d
Attempts(jr, d) == Cardinality({i \in 1..Len(jr.log) : jr.log[i].dest = d})

Succeeded(jr, d) == \E i \in 1..Len(jr.log) : jr.log[i].dest = d /\ jr.log[i].ok

Dests(jr) == {jr.log[i].dest : i \in 1..Len(jr.log)}

\* the current pass of jr has had an answer from each of its destinations
PassComplete(jr) ==
    jr.passes >= 1 /\ Cardinality(PassEntries(jr, jr.passes)) = Len(jr.matched)

\* ... at least one of them a success and at least one a failure
MixedPass(jr) ==
    /\ PassComplete(jr)
    /\ \E i \in PassEntries(jr, jr.passes) : jr.log[i].ok
    /\ \E i \in PassEntries(jr, jr.passes) : ~jr.log[i].ok

\* jobs a worker has started and not finished
Processing == {j \in Jobs : job[j].pc \in {"sending", "backoff"}}

\* ---- the rule cache ---------------------------------------------------------------
\* refresh r is published by this step
Installs(r) == r \in reloads /\ r.st = "answered" /\ r \notin reloads'

\* the store's rules whose email address is active, by (priority, id), in the
\* WebhookRouter rule format
ActiveRules ==
    LET active(row) == row.status = "active"
    IN ConvertRows(SelectSeq(QueryRows(routing_rules, email_status), active))

\* C1: when a refresh fails because a query of the rule store rejects, the
\* published routing table after the refresh equals the table before it.
C1_FailedRefreshKeepsTable ==
    [][\A r \in reloads :
          (Installs(r) /\ r.err) =>
              /\ loadedRules' = loadedRules
              /\ webhookRouter'.rules = webhookRouter.rules]_vars

\* C5: after a successful refresh the published table holds exactly the
\* store's active rules, by priority ascending, ties by id ascending: the
\* query answers with exactly those rules and the answer is what is published.
C5_RefreshPublishesActiveRules ==
    [][/\ \A r \in reloads, a \in reloads' :
             (r.st = "querying" /\ a.n = r.n /\ a.st = "answered" /\ ~a.err)
                 => LoadResult(TRUE, a.rows) = ActiveRules
       /\ \A r \in reloads :
             (Installs(r) /\ ~r.err)
                 => /\ loadedRules' = LoadResult(TRUE, r.rows)
                    /\ webhookRouter'.rules = loadedRules']_vars

\* ---- the queue worker --------------------------------------------------------------
\* the attempts of pass p of jr, in the order they were made
PassLog(jr, p) == LET inPass(e) == e.pass = p IN SelectSeq(jr.log, inPass)

MyRequests(j) == {q \in inflight : q.job = j}

MyTimers(j) == {t \in timers : t.job = j}

C4_NoMatchFailsAtOnce ==
    \A j \in Jobs :
        LET jr == job[j]
        IN (jr.passes = 1 /\ jr.matched = <<>>) =>
              /\ jr.pc = "done"
              /\ jr.cbs = <<"error">>
              /\ jr.retries = 0
              /\ MyTimers(j) = {}

SingleDest(jr) ==
    /\ Len(jr.matched) = 1
    /\ jr.passes \in {Len(jr.log), Len(jr.log) + 1}
    /\ \A i \in 1..Len(jr.log) :
          jr.log[i].pass = i /\ jr.log[i].dest = jr.matched[1]

FailedThrice(jr) ==
    Len(jr.log) >= 3 /\ \A i \in 1..3 : ~jr.log[i].ok

\* C7: a job with a single destination that failed on attempts 1, 2 and 3 is
\* not given up: it waits for its timer or makes the 4th attempt; when the 4th
\* attempt succeeds the job ends with cb(null) and the destination has had
\* exactly 4 attempts.
C7_FourthAttemptSucceeds ==
    \A j \in Jobs :
        LET jr == job[j]
        IN (SingleDest(jr) /\ FailedThrice(jr)) =>
              /\ Len(jr.log) = 3 =>
                    /\ jr.cbs = <<>>
                    /\ \/ jr.pc = "backoff" /\ MyTimers(j) # {}
                       \/ jr.pc = "sending" /\ jr.passes = 4
              /\ Len(jr.log) <= 4
              /\ (Len(jr.log) = 4 /\ jr.log[4].ok) =>
                    /\ jr.pc = "done"
                    /\ jr.cbs = <<"null">>
                    /\ Attempts(jr, jr.matched[1]) = 4

C7_Witness ==
    \E j \in Jobs :
        /\ SingleDest(job[j]) /\ FailedThrice(job[j])
        /\ Len(job[j].log) = 4 /\ job[j].log[4].ok /\ job[j].pc = "done"

\* C8: no job makes more than maxRetries + 1 = 4 passes; cb is called at most
\* once per job; a finished job has nothing scheduled or in flight; and when
\* the last allowed pass has failed the job has ended with cb(error).
C8_AtMostFourPasses ==
    \A j \in Jobs :
        LET jr == job[j]
        IN /\ jr.passes <= maxRetries + 1
           /\ Len(jr.cbs) <= 1
           /\ jr.pc = "done" =>
                 Len(jr.cbs) = 1 /\ MyTimers(j) = {} /\ MyRequests(j) = {}
           /\ (/\ jr.passes = maxRetries + 1
               /\ PassComplete(jr)
               /\ \A i \in PassEntries(jr, jr.passes) : ~jr.log[i].ok)
                 => jr.pc = "done" /\ jr.cbs = <<"error">>

\* a job that failed in each of its four passes
C8_Witness ==
    \E j \in Jobs :
        /\ job[j].passes = maxRetries + 1 /\ job[j].cbs = <<"error">>
        /\ Len(job[j].log) >= maxRetries + 1

\* C9: at every instant at most WEBHOOK_CONCURRENCY jobs are in processing
\* (taken by a worker and not yet finished), however many were pushed.
C9_AtMostNProcessing ==
    /\ Cardinality(Processing) <= WEBHOOK_CONCURRENCY
    /\ running = Cardinality(Processing)

\* all workers busy while a job waits in the queue
C9_Witness ==
    /\ Cardinality(Processing) = WEBHOOK_CONCURRENCY
    /\ queue # <<>>
    /\ \E j \in Processing : job[j].pc = "backoff"

\* C10: a job has at most one request in flight or one timer pending, never
\* both; the request in flight is the one to the next destination in matched
\* order, after all earlier destinations of the pass have been answered, in
\* that order.
C10_SequentialDelivery ==
    \A j \in Jobs :
        LET jr == job[j]
            sent == PassLog(jr, jr.passes)
        IN /\ Cardinality(MyRequests(j)) + Cardinality(MyTimers(j)) <= 1
           /\ jr.pc = "sending" <=> MyRequests(j) # {}
           /\ jr.pc = "backoff" <=> MyTimers(j) # {}
           /\ jr.pc = "sending" =>
                 /\ MyRequests(j) = {[job |-> j, idx |-> Len(sent) + 1]}
                 /\ Len(sent) < Len(jr.matched)
           /\ \A i \in 1..Len(sent) :
                 i <= Len(jr.matched) /\ sent[i].dest = jr.matched[i]
           /\ \A i \in 1..Len(jr.log) - 1 : jr.log[i].pass <= jr.log[i + 1].pass

\* the second destination of a pass is in flight after the first was answered
C10_Witness ==
    \E j \in Jobs :
        /\ job[j].pc = "sending" /\ job[j].idx = 2 /\ job[j].passes >= 2
        /\ Len(PassLog(job[j], job[j].passes)) = 1

\* ---- termination of a job -------------------------------------------------------
\* C11: every enqueued job eventually reaches its terminal state, having called
\* the queue's completion callback exactly once, unless the process exits
\* first; the callback is never called twice, a finished job is one that has
\* called it, and a finished job has no request in flight and no timer pending.
C11_JobTerminatesOnce ==
    /\ \A j \in Jobs :
          (job[j].pc # "none") ~>
              (exited \/ (job[j].pc = "done" /\ Len(job[j].cbs) = 1))
    /\ [](\A j \in Jobs :
            /\ Len(job[j].cbs) <= 1
            /\ job[j].pc = "done" <=> Len(job[j].cbs) = 1
            /\ job[j].pc = "done" => MyRequests(j) = {} /\ MyTimers(j) = {})

\* a job has finished after at least one backoff, in a live process
C11_Witness ==
    \E j \in Jobs :
        /\ job[j].pc = "done" /\ Len(job[j].cbs) = 1 /\ job[j].retries >= 1
        /\ ~exited

\* ---- the refresh against the readers of the table ------------------------------
\* a refresh is between its start and its publication
RefreshInFlight == reloads # {}

\* C12: while a refresh is in flight every step of the queue that is due can
\* be taken (a waiting job starts when a worker is free, an answered request
\* resumes its job, a due timer starts the next pass); the published table
\* changes only in the one step that installs a refresh and is then the whole
\* result of that refresh, and a pass that starts routes against the table
\* published at that moment.
C12_RefreshNeverBlocksNorTears ==
    /\ [](/\ webhookRouter.rules = loadedRules
          /\ (RefreshInFlight /\ ~exited) =>
                /\ (queue # <<>> /\ running < WEBHOOK_CONCURRENCY)
                       => ENABLED WorkerStart
                /\ \A q \in inflight, ok \in BOOLEAN : ENABLED Respond(q, ok)
                /\ \A t \in timers : ENABLED TimerFire(t))
    /\ [][/\ (webhookRouter' # webhookRouter \/ loadedRules' # loadedRules) =>
               \E r \in reloads :
                  /\ Installs(r)
                  /\ loadedRules' = LoadResult(~r.err, r.rows)
                  /\ webhookRouter' = NewRouter(loadedRules')
          /\ \A j \in Jobs :
               job'[j].passes > job[j].passes =>
                  /\ job'[j].matched = Route(loadedRules, job[j].to)
                  /\ loadedRules' = loadedRules]_vars

\* a refresh has its answer, which differs from the published table, and is
\* not installed yet, while a job is about to route and another step of it is due
C12_Witness ==
    /\ \E r \in reloads :
          r.st = "answered" /\ LoadResult(~r.err, r.rows) # loadedRules
    /\ \E t \in timers : ENABLED TimerFire(t)
    /\ loadedRules # <<>>

\* ---- the SMTP answer --------------------------------------------------------------
\* the answers onData gave for job j
RepliesOf(j) == {i \in 1..Len(replies) : replies[i].job = j}

Accepted(j) == \E i \in RepliesOf(j) : replies[i].res = "ok"

\* C13: the SMTP callback is called without an error in the step that pushes
\* the job, when the job has made no pass; the answer is never changed
\* afterwards, so every pushed job has exactly one answer, an acceptance,
\* whether it is waiting, matched no rule, was delivered or failed every time.
C13_AcceptAtEnqueue ==
    /\ [](\A j \in Jobs :
            job[j].pc # "none" =>
                Accepted(j) /\ Cardinality(RepliesOf(j)) = 1)
    /\ [][/\ \A j \in Jobs :
               (job[j].pc = "none" /\ job'[j].pc # "none") =>
                  /\ job'[j].pc = "queued" /\ job'[j].passes = 0
                  /\ job'[j].log = <<>>
                  /\ replies' = Append(replies, [job |-> j, res |-> "ok"])
          /\ \A i \in 1..Len(replies) :
               i <= Len(replies') /\ replies'[i] = replies[i]]_vars

\* an accepted email has failed at every destination on every pass
C13_Witness ==
    \E j \in Jobs :
        /\ Accepted(j)
        /\ job[j].pc = "done" /\ job[j].cbs = <<"error">>
        /\ Len(job[j].log) >= maxRetries + 1

\* the messages onData rejected
Rejected == {i \in 1..Len(replies) : replies[i].res = "error"}

\* this step hands an error to the SMTP callback
RejectStep ==
    /\ Len(replies') = Len(replies) + 1
    /\ replies'[Len(replies')].res = "error"

\* C14: the step that answers a message with an error pushes no job and
\* changes nothing else of the queue, the table, the listener or the process;
\* a rejected message belongs to no job, the accepted messages are exactly
\* the pushed jobs, and after a rejection the listener, unless the process
\* has been told to exit, takes the next message.
C14_ParseFailureRejects ==
    /\ [][RejectStep =>
             /\ UNCHANGED <<storeVars, tableVars, queueVars, exited, uiVars>>
             /\ replies' = Append(replies, [job |-> 0, res |-> "error"])]_vars
    /\ [](/\ \A i \in Rejected : replies[i].job = 0
          /\ Len(replies) - Cardinality(Rejected) = pushed
          /\ (Rejected # {} /\ ~exited) =>
                /\ listening
                /\ pushed < MaxJobs =>
                      \A to \in Recipients : ENABLED OnData(to, MaxJobs))

\* a message was rejected and a later one accepted and pushed
C14_Witness ==
    \E i \in Rejected, k \in 1..Len(replies) :
        /\ i < k /\ replies[k].res = "ok"
        /\ job[replies[k].job].pc # "none"
        /\ pushed = Len(replies) - 1

\* ---- startup ---------------------------------------------------------------------
\* the refresh called at startup has not returned yet
StartupRefreshPending == \E r \in reloads : r.n = 1

\* C15: while the startup refresh has not returned the listener is closed,
\* no message has been answered and no job exists; the listener opens in the
\* step that installs the startup refresh, which publishes the store's answer
\* when the store answered; mail is taken only by an open listener, and a job
\* that has routed did so against a router built by a refresh.
C15_StartupRefreshBeforeListen ==
    /\ [](/\ StartupRefreshPending =>
                /\ ~listening /\ webhookRouter = NullRouter
                /\ pushed = 0 /\ replies = <<>>
                /\ \A j \in Jobs : job[j] = NoJob
          /\ (listening \/ pushed > 0 \/ replies # <<>>) =>
                ~StartupRefreshPending /\ ~webhookRouter.isNull
          /\ \A j \in Jobs : job[j].passes >= 1 => ~webhookRouter.isNull)
    /\ [][/\ (~listening /\ listening') =>
               \E r \in reloads :
                  /\ r.n = 1 /\ Installs(r)
                  /\ ~r.err => loadedRules' = ConvertRows(r.rows)
                  /\ webhookRouter' = NewRouter(loadedRules')
          /\ (pushed' # pushed \/ replies' # replies) => listening]_vars

\* only the startup refresh has run, the store answered it, and a job is
\* sending to a destination it found in that table
C15_Witness ==
    /\ ticks = 1 /\ reloads = {} /\ loadedRules # <<>>
    /\ \E j \in Jobs :
          /\ job[j].pc = "sending" /\ job[j].passes = 1
          /\ job[j].matched = Route(loadedRules, job[j].to)

\* ---- failures and the life of the process ---------------------------------------
\* job j starts a pass in this step and no rule matches its email
NoMatchStep(j) == job'[j].passes > job[j].passes /\ job'[j].matched = <<>>

\* job j hands an error to the queue in this step: its last pass has failed
GiveUpStep(j) == job[j].cbs = <<>> /\ job'[j].cbs = <<"error">>

\* a failed refresh is installed in this step
FailedInstallStep == \E r \in reloads : Installs(r) /\ r.err

\* C16: a step in which a message is rejected by the parser, a pass finds no
\* matching rule, a job gives up after its last failed pass, or a failed
\* refresh is installed leaves the process running and the listener open if
\* it was open (a failed startup refresh opens it); the process exits only on a
\* shutdown signal; and as long as it has not exited after startup, the
\* listener takes the next message and a free worker takes the next job.
C16_FailuresAreNotFatal ==
    /\ [][/\ (\/ RejectStep
              \/ FailedInstallStep
              \/ \E j \in Jobs : NoMatchStep(j) \/ GiveUpStep(j))
                => (~exited' /\ (listening => listening'))
          /\ FailedInstallStep => listening'
          /\ exited' # exited =>
                UNCHANGED <<storeVars, loadedRules, webhookRouter, ticks,
                            reloads, queueVars, replies, uiVars>>]_vars
    /\ [](/\ exited \/ listening \/ StartupRefreshPending
          /\ (listening /\ ~exited) =>
                /\ pushed < MaxJobs =>
                      \A to \in Recipients : ENABLED OnData(to, MaxJobs)
                /\ (queue # <<>> /\ running < WEBHOOK_CONCURRENCY) =>
                      ENABLED WorkerStart)

\* the startup refresh failed, a message was rejected, a job has given up on
\* an email that matched no rule, and the process is running and listening
C16_Witness ==
    /\ ~exited /\ listening
    /\ Rejected # {}
    /\ \E j \in Jobs :
          /\ job[j].cbs = <<"error">> /\ job[j].log = <<>>
          /\ job[j].enq = <<>>
    /\ loadedRules = <<>> /\ ticks = 1

WebhookOfUrl(u) == CHOOSE w \in WebhookIds : UrlOf(w) = u

\* the method of the request the worker issues for a match: axios.post
RequestMethod(match) == "POST"

\* C18 as stated: every delivery request in flight is sent with the method
\* stored for the webhook destination of its rule.
C18_MethodAsConfigured ==
    \A q \in inflight :
        LET match == job[q.job].matched[q.idx]
        IN RequestMethod(match) = MethodOf(WebhookOfUrl(match.webhook))

\* ---- UI server: authentication ---------------------------------------------------
ProtectedRoutes == {"GET /api/routing-rules", "DELETE /api/routing-rules/:id"}

C20_LoginIsPublic ==
    [][\A apiKey \in KeyInputs :
          (apiKey = API_KEY /\ API_KEY # "undefined"
              /\ ApiLogin(NoToken, apiKey)) =>
             /\ response'.status = 200
             /\ response'.issued # NoToken
             /\ \E session \in sessions' \ sessions :
                   /\ session.token = response'.issued
                   /\ ~(now' > session.expiresAt)]_vars

\* ---- UI server: session lifetime --------------------------------------------------
\* this step is a request with this token that runs the session middleware
MiddlewareStep(token) ==
    \/ ApiGetRules(token)
    \/ \E id \in 1..MaxRuleId : ApiDeleteRule(token, id)
    \/ ~authRoutesFirst /\ ApiLogout(token)
    \/ ~authRoutesFirst /\ \E apiKey \in KeyInputs : ApiLogin(token, apiKey)

LastRequestAuthenticated ==
    response.route \in ProtectedRoutes /\ response.status # 401

\* C22 as stated: a token whose latest authenticated request was at most 24 h
\* ago is still valid, however long ago its session was created.
C22_ExpiresAfterInactivity ==
    (LastRequestAuthenticated /\ now - response.at <= SESSION_DURATION)
        => Authenticated(response.token)

\* ---- UI server: logout ------------------------------------------------------------
\* the token was issued by a login and its session is not in the Map
Gone(token) ==
    /\ token # NoToken /\ token < nextToken
    /\ ~ \E session \in sessions : session.token = token

\* C23: after a logout request with a token the session of that token is not
\* in the Map; a token that was issued and whose session is gone never gets a
\* session again, whatever logins follow (a login issues a new token), and
\* every request that presents it to a protected route is answered 401
\* without touching the store.
C23_LoggedOutStaysOut ==
    [][\A token \in TokenInputs \ {NoToken} :
          /\ ApiLogout(token) =>
                ~ \E session \in sessions' : session.token = token
          /\ Gone(token) =>
                /\ ~ \E session \in sessions' : session.token = token
                /\ (\/ ApiGetRules(token)
                    \/ \E id \in 1..MaxRuleId : ApiDeleteRule(token, id))
                      => /\ response'.status = 401
                         /\ UNCHANGED storeVars]_vars

\* a token was logged out before it could expire, a login after that made a
\* new session, and the old token was then turned away from a protected route
C23_Witness ==
    /\ now = 0
    /\ response.route \in ProtectedRoutes
    /\ response.status = 401 /\ response.check = "unknown"
    /\ Gone(response.token)
    /\ \E session \in sessions : session.token > response.token

\* C24 as stated: a logout request is answered 200 whatever it presents: no
\* token, an unknown token, an expired one or a valid one.
C24_LogoutAlwaysSucceeds ==
    [][\A token \in TokenInputs :
          ApiLogout(token) =>
             /\ response'.status = 200
             /\ response'.error = ""]_vars

\* ---- UI server: login -------------------------------------------------------------
\* C25 as stated: a login request whose apiKey is not the configured key, or
\* has no apiKey field, or that reaches a server with no API_KEY configured,
\* is answered 401 and creates no session.
C25_SessionOnlyByConfiguredKey ==
    [][\A token \in TokenInputs, apiKey \in KeyInputs :
          (/\ ApiLogin(token, apiKey)
           /\ \/ apiKey # API_KEY
              \/ apiKey = "undefined"
              \/ API_KEY = "undefined") =>
             /\ response'.status = 401
             /\ sessions' \subseteq sessions]_vars

\* ---- the store's constraints -----------------------------------------------------
\* C26: every routing rule references an email address and a webhook that
\* exist; the step that deletes an email address or a webhook leaves no rule
\* that references it, and a request to create a rule for an email address or
\* a webhook that does not exist is answered with an error and adds no rule.
C26_RulesReferenceExistingRows ==
    /\ [](\A r \in routing_rules :
            r.email_id \in email_addresses /\ r.webhook_id \in webhooks)
    /\ [][/\ \A e \in EmailIds :
               DeleteEmailAddress(e) =>
                  ~ \E r \in routing_rules' : r.email_id = e
          /\ \A w \in WebhookIds :
               DeleteWebhook(w) =>
                  ~ \E r \in routing_rules' : r.webhook_id = w
          /\ \A e \in EmailIds, w \in WebhookIds :
               (PostRoutingRule(e, w)
                   /\ (e \notin email_addresses \/ w \notin webhooks)) =>
                  /\ routing_rules' = routing_rules
                  /\ response'.status = 500]_vars

\* two rules were created, only email addresses were deleted since, the
\* latest request deleted one, and one rule is left
C26_Witness ==
    /\ nextRuleId = 3 /\ Cardinality(routing_rules) = 1
    /\ webhooks = WebhookIds /\ email_addresses # EmailIds
    /\ response.route = "DELETE /api/email-addresses/:id"
    /\ response.status = 200

\* C27: no two routing rules have the same (email address, webhook) pair, and
\* a request to create a rule whose pair a rule already has is answered with
\* an error (500, "Database error") and leaves the rules as they were.
C27_UniquePair ==
    /\ [](\A r1, r2 \in routing_rules :
            (r1.email_id = r2.email_id /\ r1.webhook_id = r2.webhook_id)
                => r1 = r2)
    /\ [][\A e \in EmailIds, w \in WebhookIds :
             (/\ PostRoutingRule(e, w)
              /\ \E r \in routing_rules :
                    r.email_id = e /\ r.webhook_id = w) =>
                /\ routing_rules' = routing_rules
                /\ response'.status = 500
                /\ response'.error = "Database error"]_vars

\* with every email address and webhook in place and an id still free, the
\* latest request to create a rule failed: its pair was taken
C27_Witness ==
    /\ email_addresses = EmailIds /\ webhooks = WebhookIds
    /\ nextRuleId <= MaxRuleId
    /\ routing_rules # {}
    /\ response.route = "POST /api/routing-rules"
    /\ response.status = 500

\* C28: migrations are idempotent: a run of the migrations on a database that
\* is already migrated ends well and leaves the tables and the rows of
\* email_addresses, webhooks and routing_rules as they were.
C28_MigrationsIdempotent ==
    [][(RunMigrations /\ CreatedTables \subseteq tables) =>
          /\ migrateExit' = "ok"
          /\ UNCHANGED <<tables, email_addresses, webhooks, routing_rules>>]_vars

\* C29: the destination list of a job is in ascending rule priority, the
\* priority of a destination being the id of its rule, and holds no
\* (rule id, destination) pair more than once, also when several recipients
\* of the email match the same rule.
C29_DestinationsOrderedOnce ==
    /\ [](\A j \in Jobs : \A i, k \in 1..Len(job[j].matched) :
            LET m == job[j].matched
            IN /\ i < k => m[i].priority <= m[k].priority
               /\ (m[i].priority = m[k].priority /\ m[i].webhook = m[k].webhook)
                     => i = k)
    /\ [](\A i \in 1..Len(loadedRules) :
            \E id \in 1..MaxRuleId, e \in EmailIds, w \in WebhookIds :
                /\ loadedRules[i].priority = id
                /\ loadedRules[i].to = EmailOf(e)
                /\ loadedRules[i].webhook = UrlOf(w))
    /\ [][\A j \in Jobs :
            job'[j].passes = job[j].passes + 1 =>
                \A i \in 1..Len(webhookRouter.rules) :
                    RuleMatches(webhookRouter.rules[i], job[j].to) =>
                        \E k \in 1..Len(job'[j].matched) :
                            job'[j].matched[k] =
                                ToMatch(webhookRouter.rules[i])]_vars

\* an email that names one address twice, routed to the two destinations the
\* rules give that address
C29_Witness ==
    \E j \in Jobs :
        /\ Len(job[j].to) = 2 /\ job[j].to[1] = job[j].to[2]
        /\ Len(job[j].matched) = 2
        /\ job[j].matched[1].priority = 1 /\ job[j].matched[2].priority = 2

\* C30: once a destination of a job has succeeded in a pass the job makes no
\* further pass: a pass starts, and a retry timer is set, only after a pass
\* without a success, so no delivery of the job is later than a pass in which
\* one succeeded.
C30_NoPassAfterSuccess ==
    /\ [](\A j \in Jobs : \A i, k \in 1..Len(job[j].log) :
            job[j].log[i].ok => job[j].log[k].pass <= job[j].log[i].pass)
    /\ [](\A j \in Jobs :
            (\E i \in PassEntries(job[j], job[j].passes) : job[j].log[i].ok)
                => MyTimers(j) = {})
    /\ [][\A j \in Jobs :
            job'[j].passes = job[j].passes + 1 =>
                \A i \in 1..Len(job[j].log) : ~job[j].log[i].ok]_vars

\* a job whose first pass failed everywhere and whose second pass, with one
\* success and one failure, was its last
C30_Witness ==
    \E j \in Jobs :
        /\ job[j].pc = "done" /\ job[j].passes = 2
        /\ MixedPass(job[j])
        /\ job[j].cbs = <<"null">>
        /\ MyTimers(j) = {} /\ MyRequests(j) = {}

\* C31: a job waiting in its retry backoff keeps its worker slot: a slot is
\* released only by a step in which a job calls cb, a job in backoff has not
\* called it and counts among the running jobs, and while
\* WEBHOOK_CONCURRENCY jobs are in backoff or in delivery no queued job starts.
C31_BackoffKeepsSlot ==
    /\ [](\A j \in Jobs : job[j].pc = "backoff" =>
            /\ job[j].cbs = <<>>
            /\ j \in Processing
            /\ running >= 1)
    /\ [](running = Cardinality(Processing))
    /\ [][/\ running' < running =>
               \E j \in Jobs : Len(job'[j].cbs) = Len(job[j].cbs) + 1
          /\ Cardinality(Processing) = WEBHOOK_CONCURRENCY =>
               \A j \in Jobs : job[j].pc = "queued" => job'[j].pc = "queued"]_vars

\* every worker holds a job that waits for its retry timer while another job
\* waits in the queue
C31_Witness ==
    /\ Cardinality(Processing) = WEBHOOK_CONCURRENCY
    /\ \A j \in Processing : job[j].pc = "backoff"
    /\ \E j \in Jobs : job[j].pc = "queued"
    /\ ~ENABLED WorkerStart

\* C32: refresh results are installed in the order in which the refreshes
\* were started: when a refresh publishes its result, no refresh started after
\* it has published before it (every later one is still in flight).
C32_InstalledInStartOrder ==
    [][\A r \in reloads :
          Installs(r) =>
              \A n \in (r.n + 1)..ticks : \E q \in reloads : q.n = n]_vars

\* C33: migration files are executed one at a time in ascending filename
\* order; at the first file that fails the runner exits with code 1 without
\* running any later file, and the SMTP server is then not started.
C33_MigrationsInOrderStopAtFailure ==
    /\ [](\A i, k \in 1..Len(executed) :
            /\ i < k => executed[i].file < executed[k].file
            /\ ~executed[i].ok => i = Len(executed))
    /\ [](\A i \in 1..Len(executed), k \in 1..Len(pending) :
            /\ executed[i].file <= pending[k]
            /\ executed[i].file = pending[k] => (k = 1 /\ ~executed[i].ok))
    /\ [](\A i \in 1..Len(executed) :
            ~executed[i].ok =>
                /\ migrateExit = "failed"
                /\ container \in {"returned", "exited"}
                /\ ~listening
                /\ reloads = {} /\ ticks = 0 /\ pushed = 0)
    /\ [][/\ Len(executed') <= Len(executed) + 1
          /\ executed' # executed =>
                /\ pending # <<>>
                /\ executed' = Append(executed,
                                      [file |-> Head(pending),
                                       ok |-> executed'[Len(executed')].ok])
          /\ (container' = "engine" /\ container # "engine") =>
                migrateExit = "ok"]_vars

\* the second of three files failed: the third was never run and the
\* container has exited without an engine
C33_Witness ==
    /\ Len(executed) = 2
    /\ executed[1].ok /\ ~executed[2].ok
    /\ pending = <<2, 3>>
    /\ container = "exited"
    /\ ~listening

\* C34: login and logout affect only their own session: a session leaves the
\* Map only by a logout with its own token or, once expired, by a request
\* that presents its own token; a step adds at most the one session a login
\* has just issued; and a session is never rewritten, so after a request
\* every unexpired session of another token is in the Map as it was, and
\* valid.
C34_OnlyOwnSession ==
    [][/\ \A session \in sessions :
             session \notin sessions' =>
                \/ ApiLogout(session.token)
                \/ /\ now > session.expiresAt
                   /\ response'.token = session.token
                   /\ response'.status = 401
       /\ \A session \in sessions' \ sessions :
             /\ response'.route = "POST /api/login"
             /\ response'.status = 200
             /\ response'.issued = session.token
             /\ session.token = nextToken
             /\ sessions' = sessions \cup {session}
       /\ \A session \in sessions :
             (/\ now' = now
              /\ now <= session.expiresAt
              /\ response'.token # session.token)
                 => (session \in sessions' /\ Authenticated(session.token)')
      ]_vars

\* of two sessions the later one was logged out; the earlier one is still in
\* the Map and valid
C34_Witness ==
    /\ response.route = "POST /api/logout" /\ response.status = 200
    /\ Gone(response.token)
    /\ \E session \in sessions :
          /\ session.token < response.token
          /\ Authenticated(session.token)

====
